---------------------------- MODULE Spec2Model ----------------------------
(***************************************************************************)
(* Model of scripts/validate_autoinstall.py: the validator of Ubuntu       *)
(* autoinstall NoCloud-Net seed directories.                               *)
(*                                                                         *)
(* Texts are sequences of lines (str.splitlines), every line ended by its  *)
(* newline, the missing or empty file being the empty sequence; a line is  *)
(* a sequence of atoms, an atom being one character or one word that no    *)
(* other atom overlaps.                                                    *)
(*                                                                         *)
(* Three specifications:                                                   *)
(*   Spec      runs of main() over a read-only file system;                *)
(*   SpecMeta  validate_meta applied to bounded meta-data texts;           *)
(*   SpecUser  validate_user_data / validate_host applied to bounded       *)
(*             user-data texts, schemas and meta-data texts.               *)
(***************************************************************************)
EXTENDS Integers, Sequences, FiniteSets, TLC

VARIABLES
    fs,          \* the file system main() reads: schema file, hosts directory
    pc,          \* position of main(): idle, load, find, loop, done
    fail_fast,   \* args.fail_fast of the current run
    schema,      \* the loaded schema
    host_dirs,   \* result of find_host_dirs
    idx,         \* number of loop iterations of `for host_dir in host_dirs` begun
    any_errors,  \* main's any_errors
    out,         \* strings printed on stdout by the current run, one per print call
    validated,   \* host names passed to validate_host by the current run, in order
    rc,          \* exit code of the current run (-1 while running)
    prev,        \* finished earlier runs over the same file system
    arg,         \* argument of the function applied (SpecMeta, SpecUser)
    ret,         \* what it returned
    fpc          \* "off" | "ready" | "returned"

vars == <<fs, pc, fail_fast, schema, host_dirs, idx, any_errors, out,
          validated, rc, prev, arg, ret, fpc>>

mainVars == <<fs, pc, fail_fast, schema, host_dirs, idx, any_errors, out,
              validated, rc, prev>>

---------------------------------------------------------------------------
(* Bounds *)

MaxMetaLines == 3

MaxUserLines == 2

MaxHosts == 3

MaxRuns == 2

---------------------------------------------------------------------------
(* Sequence helpers *)

RECURSIVE JoinAtoms(_)
\* "".join(atoms): the string a sequence of atoms spells
JoinAtoms(s) == IF s = <<>> THEN "" ELSE Head(s) \o JoinAtoms(Tail(s))

RECURSIVE lstrip(_)
\* str.lstrip over the atoms: drops leading blanks
lstrip(s) == IF s # <<>> /\ Head(s) = " " THEN lstrip(Tail(s)) ELSE s

RECURSIVE rstrip(_)
\* str.rstrip over the atoms: drops trailing blanks
rstrip(s) ==
    IF s # <<>> /\ s[Len(s)] = " " THEN rstrip(SubSeq(s, 1, Len(s) - 1)) ELSE s

\* str.strip
strip(s) == rstrip(lstrip(s))

\* a.startswith(b)
startswith(a, b) == Len(b) <= Len(a) /\ SubSeq(a, 1, Len(b)) = b

\* a.endswith(b)
endswith(a, b) ==
    Len(b) <= Len(a) /\ SubSeq(a, Len(a) - Len(b) + 1, Len(a)) = b

\* x in s
Contains(s, x) == \E i \in 1..Len(s) : s[i] = x

\* s.index(x), for x in s
IndexOf(s, x) == CHOOSE i \in 1..Len(s) : s[i] = x /\ \A j \in 1..(i - 1) : s[j] # x

\* s.split(x, 1), for x in s
split1(s, x) ==
    LET i == IndexOf(s, x) IN <<SubSeq(s, 1, i - 1), SubSeq(s, i + 1, Len(s))>>

RECURSIVE SeqsUpTo(_, _)
\* every sequence over S of length at most n
SeqsUpTo(S, n) ==
    IF n = 0 THEN {<<>>}
    ELSE LET shorter == SeqsUpTo(S, n - 1)
         IN  shorter \cup {Append(s, x) : s \in {t \in shorter : Len(t) = n - 1}, x \in S}

\* number of positions of s holding x
CountOf(s, x) == Cardinality({i \in 1..Len(s) : s[i] = x})

---------------------------------------------------------------------------
(* read_text: a path's text, "" for a file that is not there.  Files are   *)
(* held as texts, the missing file as the empty text.                      *)

NoFile == <<>>

read_text(file) == file

---------------------------------------------------------------------------
(* parse_kv_file / validate_meta *)

\* dict update result[key] = val
DictSet(d, key, val) ==
    [k \in DOMAIN d \cup {key} |-> IF k = key THEN val ELSE d[k]]

\* dict.get(key, default)
DictGet(d, key, default) == IF key \in DOMAIN d THEN d[key] ELSE default

EmptyDict == [k \in {} |-> <<>>]

\* one iteration of the loop of parse_kv_file
parse_kv_line(result, raw_line) ==
    LET line == strip(raw_line) IN
    IF line = <<>> \/ startswith(line, <<"#">>) THEN result
    ELSE IF ~Contains(line, ":") THEN result
    ELSE LET kv == split1(line, ":")
         IN  DictSet(result, strip(kv[1]), strip(kv[2]))

RECURSIVE parse_kv_from(_, _)
parse_kv_from(result, lines) ==
    IF lines = <<>> THEN result
    ELSE parse_kv_from(parse_kv_line(result, Head(lines)), Tail(lines))

parse_kv_file(text) == parse_kv_from(EmptyDict, text)

ErrMetaEmpty == "meta-data missing or empty"
ErrNoInstanceId == "meta-data: missing instance-id"
ErrNoHostname == "meta-data: missing local-hostname"
ErrPrefix == "meta-data: instance-id should start with local-hostname (hint from sample)"

KeyInstanceId == <<"instance-id">>
KeyLocalHostname == <<"local-hostname">>


\* a faulty variant of meta_checks: the checks chained with elif
meta_checks_elif(instance_id, local_hostname) ==
    IF instance_id = <<>> THEN <<ErrNoInstanceId>>
    ELSE IF local_hostname = <<>> THEN <<ErrNoHostname>>
    ELSE IF ~startswith(instance_id, local_hostname) THEN <<ErrPrefix>>
    ELSE <<>>

\* the checks of validate_meta after the early return
meta_checks(instance_id, local_hostname) ==
    (IF instance_id = <<>> THEN <<ErrNoInstanceId>> ELSE <<>>)
    \o (IF local_hostname = <<>> THEN <<ErrNoHostname>> ELSE <<>>)
    \o (IF instance_id # <<>> /\ local_hostname # <<>>
           /\ ~startswith(instance_id, local_hostname)
        THEN <<ErrPrefix>> ELSE <<>>)

validate_meta(meta_file) ==
    LET text == read_text(meta_file) IN
    IF text = <<>> THEN <<ErrMetaEmpty>>
    ELSE LET data == parse_kv_file(text)
         IN  meta_checks(strip(DictGet(data, KeyInstanceId, <<>>)),
                         strip(DictGet(data, KeyLocalHostname, <<>>)))

\* lines of meta-data files the model draws from
MetaLines ==
    { <<>>,
      <<"#", "instance-id", ":", "w">>,
      <<"instance-id", ":", " ", "w", "2">>,
      <<"instance-id", ":">>,
      <<" ", "instance-id", " ", ":", "w", " ">>,
      <<"instance-id">>,
      <<"w", "instance-id", ":", "w">>,
      <<"instance-id", ":", "2", ":", "w">>,
      <<"local-hostname", ":", " ", "w">>,
      <<"local-hostname", ":", " ">>,
      <<"local-hostname", ":", "2">> }

MetaTexts == SeqsUpTo(MetaLines, MaxMetaLines)

---------------------------------------------------------------------------
(* Parsed documents: the values yaml.safe_load and json.loads return.      *)
(* A mapping is the sequence of its (key, value) pairs in document order,  *)
(* as a Python dict keeps them.                                            *)

VNull == [t |-> "null"]
VBool(b) == [t |-> "bool", b |-> b]
VInt(n) == [t |-> "int", n |-> n]
VStr(s) == [t |-> "str", s |-> s]
VSeq(items) == [t |-> "seq", items |-> items]
VMap(pairs) == [t |-> "map", pairs |-> pairs]

\* bool(value), as `or` and `if` take it
Truthy(v) ==
    CASE v.t = "null" -> FALSE
      [] v.t = "bool" -> v.b
      [] v.t = "int" -> v.n # 0
      [] v.t = "str" -> v.s # ""
      [] v.t = "seq" -> v.items # <<>>
      [] v.t = "map" -> v.pairs # <<>>

\* isinstance(value, dict)
IsDict(v) == v.t = "map"

\* key in mapping
HasKey(m, key) == \E i \in 1..Len(m.pairs) : m.pairs[i][1] = key

\* mapping.get(key): None for a key that is not there
Get(m, key) ==
    IF HasKey(m, key)
    THEN m.pairs[CHOOSE i \in 1..Len(m.pairs) : m.pairs[i][1] = key][2]
    ELSE VNull

\* list(mapping.keys())
Keys(m) == [i \in 1..Len(m.pairs) |-> m.pairs[i][1]]

Digits == <<"0", "1", "2", "3", "4", "5", "6", "7", "8", "9">>

RECURSIVE repr(_)
RECURSIVE repr_items(_)
RECURSIVE repr_pairs(_)
\* repr(value), which jsonschema's messages embed
repr(v) ==
    CASE v.t = "null" -> "None"
      [] v.t = "bool" -> IF v.b THEN "True" ELSE "False"
      [] v.t = "int" -> Digits[v.n + 1]
      [] v.t = "str" -> "'" \o v.s \o "'"
      [] v.t = "seq" -> "[" \o repr_items(v.items) \o "]"
      [] v.t = "map" -> "{" \o repr_pairs(v.pairs) \o "}"

repr_items(items) ==
    IF items = <<>> THEN ""
    ELSE repr(Head(items))
         \o (IF Len(items) > 1 THEN ", " ELSE "") \o repr_items(Tail(items))

repr_pairs(pairs) ==
    IF pairs = <<>> THEN ""
    ELSE "'" \o Head(pairs)[1] \o "': " \o repr(Head(pairs)[2])
         \o (IF Len(pairs) > 1 THEN ", " ELSE "") \o repr_pairs(Tail(pairs))

\* str < str on the keys the documents use (code point order)
StrOrder == <<"hostname", "ident", "identity", "identiy", "idntity", "locale", "version">>

StrRank(s) == CHOOSE i \in 1..Len(StrOrder) : StrOrder[i] = s

StrLess(a, b) == StrRank(a) < StrRank(b)

---------------------------------------------------------------------------
(* _RE_CLOUD_CONFIG = ^\s*#cloud-config\b, IGNORECASE | MULTILINE *)

\* str.lower on an atom
Lower(a) == IF a = "#Cloud-Config" THEN "#cloud-config" ELSE a

\* whether the atom starts with a \w character
IsWord(a) == a = "x"

\* the pattern matched at the start of one line
MarkerAt(line) ==
    LET l == lstrip(line) IN
    /\ l # <<>>
    /\ Lower(Head(l)) = "#cloud-config"
    /\ (Len(l) = 1 \/ ~IsWord(l[2]))

\* _RE_CLOUD_CONFIG.search(text)
cloud_config_search(text) == \E i \in 1..Len(text) : MarkerAt(text[i])

---------------------------------------------------------------------------
(* yaml.safe_load on the user-data texts of the model: comment and blank   *)
(* lines around at most one line of content.                               *)

AiValid ==
    VMap(<< <<"identity", VMap(<< <<"hostname", VStr("h")>> >>)>>,
            <<"version", VInt(1)>> >>)
AiNoIdentity == VMap(<< <<"version", VInt(1)>> >>)
AiTypo ==
    VMap(<< <<"identiy", VMap(<< <<"hostname", VStr("h")>> >>)>>,
            <<"version", VInt(1)>> >>)
AiBadFields == VMap(<< <<"version", VStr("x")>>, <<"identity", VMap(<<>>)>> >>)
AiEmpty == VMap(<<>>)
AiBadTypes == VMap(<< <<"locale", VInt(5)>>, <<"identity", VInt(3)>> >>)
AiBadNoIdentity == VMap(<< <<"version", VStr("x")>>, <<"locale", VInt(5)>> >>)
AiTwoTypos ==
    VMap(<< <<"ident", VInt(1)>>, <<"identiy", VMap(<<>>)>>,
            <<"idntity", VMap(<<>>)>> >>)

Root(v) == VMap(<< <<"autoinstall", v>> >>)

YamlOk(v) == [ok |-> TRUE, doc |-> v]

\* a YAMLError before its position is known: the context and the problem
\* of the exception ("" for None), and where the problem lies: at the
\* column (from 0) of the line of content, or at the end of the stream
YamlError(context, problem, where, column) ==
    [ok |-> FALSE, context |-> context, problem |-> problem,
     where |-> where, column |-> column]

\* the one-line documents and what the YAML parser makes of each; for a
\* line that does not parse, the exception without its position, which
\* safe_load takes from the text around the line
YamlTable ==
    [ body \in
        { "~", "0", "false", "true", "''", "[]", "{}", "7", "abc", "[a]", "other: 1",
          "{", "a: b: c",
          "autoinstall:", "autoinstall: 0", "autoinstall: abc",
          "autoinstall: []", "autoinstall: [a]", "autoinstall: {}",
          "autoinstall: {identity: {hostname: h}, version: 1}",
          "autoinstall: {version: 1}",
          "autoinstall: {identiy: {hostname: h}, version: 1}",
          "autoinstall: {version: x, identity: {}}",
          "autoinstall: {locale: 5, identity: 3}",
          "autoinstall: {version: x, locale: 5}",
          "autoinstall: {ident: 1, identiy: {}, idntity: {}}" } |->
      CASE body = "~" -> YamlOk(VNull)
        [] body = "0" -> YamlOk(VInt(0))
        [] body = "false" -> YamlOk(VBool(FALSE))
        [] body = "true" -> YamlOk(VBool(TRUE))
        [] body = "''" -> YamlOk(VStr(""))
        [] body = "[]" -> YamlOk(VSeq(<<>>))
        [] body = "{}" -> YamlOk(VMap(<<>>))
        [] body = "7" -> YamlOk(VInt(7))
        [] body = "abc" -> YamlOk(VStr("abc"))
        [] body = "[a]" -> YamlOk(VSeq(<<VStr("a")>>))
        [] body = "other: 1" -> YamlOk(VMap(<< <<"other", VInt(1)>> >>))
        [] body = "{" ->
               YamlError("while parsing a flow node",
                         "expected the node content, but found '<stream end>'",
                         "end", 0)
        [] body = "a: b: c" ->
               YamlError("", "mapping values are not allowed here", "line", 4)
        [] body = "autoinstall:" -> YamlOk(Root(VNull))
        [] body = "autoinstall: 0" -> YamlOk(Root(VInt(0)))
        [] body = "autoinstall: abc" -> YamlOk(Root(VStr("abc")))
        [] body = "autoinstall: []" -> YamlOk(Root(VSeq(<<>>)))
        [] body = "autoinstall: [a]" -> YamlOk(Root(VSeq(<<VStr("a")>>)))
        [] body = "autoinstall: {}" -> YamlOk(Root(AiEmpty))
        [] body = "autoinstall: {identity: {hostname: h}, version: 1}" ->
               YamlOk(Root(AiValid))
        [] body = "autoinstall: {version: 1}" -> YamlOk(Root(AiNoIdentity))
        [] body = "autoinstall: {identiy: {hostname: h}, version: 1}" ->
               YamlOk(Root(AiTypo))
        [] body = "autoinstall: {version: x, identity: {}}" ->
               YamlOk(Root(AiBadFields))
        [] body = "autoinstall: {locale: 5, identity: 3}" ->
               YamlOk(Root(AiBadTypes))
        [] body = "autoinstall: {version: x, locale: 5}" ->
               YamlOk(Root(AiBadNoIdentity))
        [] body = "autoinstall: {ident: 1, identiy: {}, idntity: {}}" ->
               YamlOk(Root(AiTwoTypos)) ]

\* a comment line or a blank line: nothing to the YAML parser
IsYamlBlank(line) == LET l == lstrip(line) IN l = <<>> \/ Head(l) \in {"#", "#cloud-config", "#Cloud-Config"}

\* the lines that carry content
ContentLines(text) == SelectSeq(text, LAMBDA line : ~IsYamlBlank(line))

\* index (from 1) of the first line that carries content
ContentIndex(text) ==
    CHOOSE i \in 1..Len(text) :
        ~IsYamlBlank(text[i]) /\ \A j \in 1..(i - 1) : IsYamlBlank(text[j])

RECURSIVE str_int(_)
\* str(n), n >= 0
str_int(n) ==
    IF n < 10 THEN Digits[n + 1] ELSE str_int(n \div 10) \o Digits[(n % 10) + 1]

RECURSIVE Spaces(_)
\* " " * n
Spaces(n) == IF n = 0 THEN "" ELSE " " \o Spaces(n - 1)

\* the Mark of the problem, line and column from 0: the column on the line
\* of content, or the end of the stream, which is the start of the line
\* after the last newline
problem_mark(text, err) ==
    IF err.where = "end" THEN [line |-> Len(text), column |-> 0]
    ELSE [line |-> ContentIndex(text) - 1, column |-> err.column]

\* Mark.get_snippet(): the line the mark is on, and a caret under the mark
get_snippet(text, mark) ==
    Spaces(4)
    \o (IF mark.line < Len(text) THEN JoinAtoms(text[mark.line + 1]) ELSE "")
    \o "\n" \o Spaces(4 + mark.column) \o "^"

\* str(mark)
mark_str(text, mark) ==
    "  in \"<unicode string>\", line " \o str_int(mark.line + 1)
    \o ", column " \o str_int(mark.column + 1) \o ":\n" \o get_snippet(text, mark)

\* str(exc) of a MarkedYAMLError: context, problem, problem mark.  The
\* context mark, where there is one, is the problem mark and is left out.
exc_str(text, err) ==
    (IF err.context # "" THEN err.context \o "\n" ELSE "")
    \o err.problem \o "\n" \o mark_str(text, problem_mark(text, err))

\* yaml.safe_load(text): None for a document of comments only; exc is
\* str(exc) of the YAMLError raised
safe_load(text) ==
    LET content == ContentLines(text) IN
    IF content = <<>> THEN YamlOk(VNull)
    ELSE LET parsed == YamlTable[JoinAtoms(content[1])]
         IN  IF parsed.ok THEN parsed
             ELSE [ok |-> FALSE, exc |-> exc_str(text, parsed)]

CommentLines ==
    { <<>>,
      <<"#cloud-config">>,
      <<" ", "#Cloud-Config", " ">>,
      <<"#cloud-config", "x">>,
      <<"#cloud-config", "-", "x">>,
      <<"#", " ", "#cloud-config">> }

BodyLines == { <<body>> : body \in DOMAIN YamlTable }

UserLines == CommentLines \cup BodyLines

\* user-data texts: at most one line of content
UserTexts ==
    { text \in SeqsUpTo(UserLines, MaxUserLines) : Len(ContentLines(text)) <= 1 }

---------------------------------------------------------------------------
(* Draft7Validator(schema).iter_errors(instance), for schemas made of the  *)
(* keywords type, properties and required.  A schema is the sequence of    *)
(* its keywords in the order of the JSON object, which is the order        *)
(* iter_errors visits them in.                                             *)

KwType(type) == [kw |-> "type", type |-> type]
KwProperties(props) == [kw |-> "properties", props |-> props]
KwRequired(keys) == [kw |-> "required", keys |-> keys]

\* validator.is_type(instance, type)
is_type(v, type) ==
    CASE type = "object" -> v.t = "map"
      [] type = "string" -> v.t = "str"
      [] type = "integer" -> v.t = "int"
      [] type = "array" -> v.t = "seq"

ValidationError(path, message) == [path |-> path, message |-> message]

\* the errors of keyword `required`, in the order of its list
RECURSIVE required_errors(_, _, _)
required_errors(keys, instance, path) ==
    IF keys = <<>> THEN <<>>
    ELSE (IF HasKey(instance, Head(keys)) THEN <<>>
          ELSE <<ValidationError(path, "'" \o Head(keys) \o "' is a required property")>>)
         \o required_errors(Tail(keys), instance, path)

RECURSIVE iter_errors_at(_, _, _)
RECURSIVE properties_errors(_, _, _)
RECURSIVE keyword_errors(_, _, _, _)

\* the errors of one keyword of a schema
keyword_errors(kws, i, instance, path) ==
    LET k == kws[i] IN
    CASE k.kw = "type" ->
           IF is_type(instance, k.type) THEN <<>>
           ELSE <<ValidationError(path,
                     repr(instance) \o " is not of type '" \o k.type \o "'")>>
      [] k.kw = "required" ->
           IF IsDict(instance) THEN required_errors(k.keys, instance, path) ELSE <<>>
      [] k.kw = "properties" ->
           IF IsDict(instance) THEN properties_errors(k.props, instance, path) ELSE <<>>

\* keyword `properties`: descends into each property the instance has, in
\* the order of the schema
properties_errors(props, instance, path) ==
    IF props = <<>> THEN <<>>
    ELSE (IF HasKey(instance, Head(props)[1])
          THEN iter_errors_at(Head(props)[2], Get(instance, Head(props)[1]),
                              Append(path, Head(props)[1]))
          ELSE <<>>)
         \o properties_errors(Tail(props), instance, path)

RECURSIVE keywords_from(_, _, _, _)
keywords_from(kws, i, instance, path) ==
    IF i > Len(kws) THEN <<>>
    ELSE keyword_errors(kws, i, instance, path) \o keywords_from(kws, i + 1, instance, path)

iter_errors_at(kws, instance, path) == keywords_from(kws, 1, instance, path)

\* validator.iter_errors(instance)
iter_errors(kws, instance) == iter_errors_at(kws, instance, <<>>)

RECURSIVE PathLess(_, _)
\* deque < deque: lexicographic, a proper prefix first
PathLess(p, q) ==
    IF q = <<>> THEN FALSE
    ELSE IF p = <<>> THEN TRUE
    ELSE IF Head(p) = Head(q) THEN PathLess(Tail(p), Tail(q))
    ELSE StrLess(Head(p), Head(q))

\* e put into the sorted s behind every element that is not greater
InsertByPath(s, e) ==
    LET n == Cardinality({i \in 1..Len(s) : ~PathLess(e.path, s[i].path)})
    IN  SubSeq(s, 1, n) \o <<e>> \o SubSeq(s, n + 1, Len(s))

RECURSIVE SortFrom(_, _)
SortFrom(done, rest) ==
    IF rest = <<>> THEN done ELSE SortFrom(InsertByPath(done, Head(rest)), Tail(rest))

\* sorted(errs, key=lambda e: e.path): stable
sorted_by_path(errs) == SortFrom(<<>>, errs)

RECURSIVE JoinPath(_)
\* "/".join(str(p) for p in path)
JoinPath(path) ==
    IF path = <<>> THEN ""
    ELSE Head(path) \o (IF Len(path) > 1 THEN "/" ELSE "") \o JoinPath(Tail(path))

\* f"user-data.autoinstall: {loc}: {err.message}"
schema_msg(err) ==
    LET joined == JoinPath(err.path)
        loc == IF joined = "" THEN "(root)" ELSE joined
    IN  "user-data.autoinstall: " \o loc \o ": " \o err.message

\* the list msgs of validate_user_data
schema_msgs(kws, autoinstall) ==
    LET errs == sorted_by_path(iter_errors(kws, autoinstall))
    IN  [i \in 1..Len(errs) |-> schema_msg(errs[i])]

\* the schemas of the model
SchemaFull ==
    << KwType("object"),
       KwProperties(<< <<"version", <<KwType("integer")>> >>,
                       <<"locale", <<KwType("string")>> >>,
                       <<"identity", <<KwType("object"), KwRequired(<<"hostname">>)>> >> >>),
       KwRequired(<<"version">>) >>

SchemaAny == <<>>

SchemaNeedsIdentity == << KwRequired(<<"identity", "version">>) >>

Schemas == {SchemaFull, SchemaAny, SchemaNeedsIdentity}

---------------------------------------------------------------------------
(* difflib.get_close_matches("identity", keys, n=1, cutoff=0.8) *)

\* SequenceMatcher(a=key, b="identity"): the size of its matching blocks
MatchCount(key) ==
    CASE key = "identiy" -> 7
      [] key = "idntity" -> 7
      [] key = "ident" -> 5
      [] key = "version" -> 2
      [] key = "locale" -> 1
      [] key = "hostname" -> 1
      [] key = "identity" -> 8

\* ratio() = 2 * M / T as the fraction <<2 M, T>>
Ratio(key) == <<2 * MatchCount(key), Len(key) + Len("identity")>>

\* ratio() >= cutoff, the cutoff being 0.8 = 4/5
AtLeastCutoff(key) == 5 * Ratio(key)[1] >= 4 * Ratio(key)[2]

\* (score, x) < (score', x'), the order heapq.nlargest takes the largest of
ScoredLess(a, b) ==
    LET ra == Ratio(a)
        rb == Ratio(b)
    IN  \/ ra[1] * rb[2] < rb[1] * ra[2]
        \/ ra[1] * rb[2] = rb[1] * ra[2] /\ StrLess(a, b)

\* get_close_matches: the best candidate, or none
get_close_matches(keys) ==
    LET close == {keys[i] : i \in {j \in 1..Len(keys) : AtLeastCutoff(keys[j])}}
    IN  IF close = {} THEN <<>>
        ELSE <<CHOOSE k \in close : \A o \in close : o = k \/ ScoredLess(o, k)>>

---------------------------------------------------------------------------
(* validate_user_data *)

ErrUserEmpty == "user-data missing or empty"
ErrNoMarker == "user-data: first line should start with #cloud-config"
ErrNotMapping == "user-data: expected a YAML mapping at top-level"
ErrNoAutoinstall == "user-data: missing top-level 'autoinstall' key"
ErrAutoinstallType == "user-data: 'autoinstall' must be a mapping/object"
ErrNoIdentity == "user-data.autoinstall: missing 'identity'"

ErrInvalidYaml(exc) == "user-data: invalid YAML (" \o exc \o ")"

ErrDidYouMean(key) ==
    "user-data.autoinstall: missing 'identity' (did you mean '" \o key \o "'?)"

\* lines 92-93: the errors list after the marker check
marker_errors(text) == IF ~cloud_config_search(text) THEN <<ErrNoMarker>> ELSE <<>>


\* a faulty variant of doc_or_empty: only None is replaced by {}
doc_or_empty_none_only(loaded) == IF loaded.t = "null" THEN VMap(<<>>) ELSE loaded

\* line 97: yaml.safe_load(text) or {}
doc_or_empty(loaded) == IF Truthy(loaded) THEN loaded ELSE VMap(<<>>)

\* lines 113-120: the identity check
identity_errors(autoinstall) ==
    IF HasKey(autoinstall, "identity") THEN <<>>
    ELSE LET close == get_close_matches(Keys(autoinstall))
         IN  IF close # <<>> THEN <<ErrDidYouMean(close[1])>> ELSE <<ErrNoIdentity>>


\* a faulty variant of check_autoinstall: the early returns give a fresh list
check_autoinstall_fresh(errors, doc, kws) ==
    LET autoinstall == Get(doc, "autoinstall") IN
    IF autoinstall.t = "null" THEN <<ErrNoAutoinstall>>
    ELSE IF ~IsDict(autoinstall) THEN <<ErrAutoinstallType>>
    ELSE errors \o identity_errors(autoinstall) \o schema_msgs(kws, autoinstall)

\* a faulty variant of check_autoinstall: `if not autoinstall` for `if autoinstall is None`
check_autoinstall_falsy(errors, doc, kws) ==
    LET autoinstall == Get(doc, "autoinstall") IN
    IF ~Truthy(autoinstall) THEN Append(errors, ErrNoAutoinstall)
    ELSE IF ~IsDict(autoinstall) THEN Append(errors, ErrAutoinstallType)
    ELSE errors \o identity_errors(autoinstall) \o schema_msgs(kws, autoinstall)

\* a faulty variant of check_autoinstall: a missing identity ends the checks
check_autoinstall_identity_stops(errors, doc, kws) ==
    LET autoinstall == Get(doc, "autoinstall") IN
    IF autoinstall.t = "null" THEN Append(errors, ErrNoAutoinstall)
    ELSE IF ~IsDict(autoinstall) THEN Append(errors, ErrAutoinstallType)
    ELSE IF identity_errors(autoinstall) # <<>> THEN errors \o identity_errors(autoinstall)
    ELSE errors \o schema_msgs(kws, autoinstall)

\* lines 104-130: from the lookup of autoinstall on
check_autoinstall(errors, doc, kws) ==
    LET autoinstall == Get(doc, "autoinstall") IN
    IF autoinstall.t = "null" THEN Append(errors, ErrNoAutoinstall)
    ELSE IF ~IsDict(autoinstall) THEN Append(errors, ErrAutoinstallType)
    ELSE errors \o identity_errors(autoinstall) \o schema_msgs(kws, autoinstall)


\* a faulty variant of check_document: the parse failure is appended to the errors so far
check_document_appends(errors, text, kws) ==
    LET loaded == safe_load(text) IN
    IF ~loaded.ok THEN Append(errors, ErrInvalidYaml(loaded.exc))
    ELSE LET doc == doc_or_empty(loaded.doc)
         IN  IF ~IsDict(doc) THEN <<ErrNotMapping>>
             ELSE check_autoinstall(errors, doc, kws)

\* lines 96-102: the parse and the check of the root
check_document(errors, text, kws) ==
    LET loaded == safe_load(text) IN
    IF ~loaded.ok THEN <<ErrInvalidYaml(loaded.exc)>>
    ELSE LET doc == doc_or_empty(loaded.doc)
         IN  IF ~IsDict(doc) THEN <<ErrNotMapping>>
             ELSE check_autoinstall(errors, doc, kws)

validate_user_data(user_file, kws) ==
    LET text == read_text(user_file) IN
    IF text = <<>> THEN <<ErrUserEmpty>>
    ELSE check_document(marker_errors(text), text, kws)

\* validate_host: the errors of the pair it returns
validate_host(dir, kws) ==
    validate_meta(dir.meta) \o validate_user_data(dir.user, kws)

---------------------------------------------------------------------------
(* SpecMeta: validate_meta on every meta-data text of the model *)

MainOff ==
    /\ fs = "none"
    /\ pc = "off"
    /\ fail_fast = FALSE
    /\ schema = <<>>
    /\ host_dirs = <<>>
    /\ idx = 0
    /\ any_errors = FALSE
    /\ out = <<>>
    /\ validated = <<>>
    /\ rc = 0
    /\ prev = <<>>

InitMeta ==
    /\ MainOff
    /\ arg \in [meta : MetaTexts]
    /\ ret = <<>>
    /\ fpc = "ready"

CallValidateMeta ==
    /\ fpc = "ready"
    /\ ret' = validate_meta(arg.meta)
    /\ fpc' = "returned"
    /\ UNCHANGED <<mainVars, arg>>

NextMeta == CallValidateMeta

SpecMeta == InitMeta /\ [][NextMeta]_vars

---------------------------------------------------------------------------
(* SpecUser: validate_user_data and validate_host on every user-data text  *)
(* of the model, under each schema, beside a few meta-data files           *)

MetaValid ==
    << <<"instance-id", ":", " ", "w", "2">>, <<"local-hostname", ":", " ", "w">> >>

MetaNoHostname == << <<"instance-id", ":", " ", "w", "2">> >>

HostMetas == {NoFile, MetaValid, MetaNoHostname}

InitUser ==
    /\ MainOff
    /\ arg \in [meta : HostMetas, user : UserTexts, schema : Schemas]
    /\ ret = [fn |-> "none", errors |-> <<>>]
    /\ fpc = "ready"

CallValidateUserData ==
    /\ fpc = "ready"
    /\ ret' = [fn |-> "validate_user_data",
               errors |-> validate_user_data(arg.user, arg.schema)]
    /\ fpc' = "returned"
    /\ UNCHANGED <<mainVars, arg>>

CallValidateHost ==
    /\ fpc = "ready"
    /\ ret' = [fn |-> "validate_host",
               errors |-> validate_host([meta |-> arg.meta, user |-> arg.user], arg.schema)]
    /\ fpc' = "returned"
    /\ UNCHANGED <<mainVars, arg>>

NextUser == CallValidateUserData \/ CallValidateHost

SpecUser == InitUser /\ [][NextUser]_vars

---------------------------------------------------------------------------
(* The file system of a run of main *)

\* args.schema and args.hosts_dir, at their defaults
SchemaPath == "scripts/ubuntu_autoinstall_schema.json"
HostsDir == "cloud-init/v1/hosts"

\* schema files: the text of each and what json.loads makes of it
JsonFull == "{\"type\": \"object\", \"properties\": {\"version\": {\"type\": \"integer\"}, \"locale\": {\"type\": \"string\"}, \"identity\": {\"type\": \"object\", \"required\": [\"hostname\"]}}, \"required\": [\"version\"]}"
JsonAny == "{}"
JsonBroken == "{\"type\": "

JsonOk(v) == [ok |-> TRUE, value |-> v]

RECURSIVE text_len(_)
\* len(text): the characters of every line and its newline
text_len(text) ==
    IF text = <<>> THEN 0 ELSE Len(JoinAtoms(Head(text))) + 1 + text_len(Tail(text))

RECURSIVE line_col(_, _, _)
\* lineno and colno of JSONDecodeError for the character at pos (from 0):
\* doc.count("\n", 0, pos) + 1 and pos - doc.rindex("\n", 0, pos)
line_col(text, pos, lineno) ==
    IF text = <<>> \/ pos < Len(JoinAtoms(Head(text))) + 1
    THEN [lineno |-> lineno, colno |-> pos + 1]
    ELSE line_col(Tail(text), pos - (Len(JoinAtoms(Head(text))) + 1), lineno + 1)

\* a JSONDecodeError and its str(exc)
JsonDecodeError(msg, text, pos) ==
    LET at == line_col(text, pos, 1) IN
    [ok |-> FALSE,
     exc |-> msg \o ": line " \o str_int(at.lineno) \o " column " \o str_int(at.colno)
             \o " (char " \o str_int(pos) \o ")"]

\* json.loads(text); the broken file ends where the value of "type" is
\* expected, so the decoder fails at the end of the text
json_loads(text) ==
    LET s == JoinAtoms(text[1]) IN
    CASE s = JsonFull -> JsonOk(SchemaFull)
      [] s = JsonAny -> JsonOk(SchemaAny)
      [] s = JsonBroken -> JsonDecodeError("Expecting value", text, text_len(text))

SchemaFiles == {NoFile, << <<JsonBroken>> >>, << <<JsonFull>> >>, << <<JsonAny>> >>}

\* load_schema: the schema, or the exception raised
load_schema(schema_file) ==
    LET text == read_text(schema_file) IN
    IF text = <<>>
    THEN [ok |-> FALSE, exc |-> "Schema file not found: " \o SchemaPath]
    ELSE LET loaded == json_loads(text)
         IN  IF loaded.ok THEN [ok |-> TRUE, value |-> loaded.value]
             ELSE [ok |-> FALSE,
                   exc |-> "Invalid JSON schema at " \o SchemaPath \o ": " \o loaded.exc]

\* names of the entries of the hosts directory, as atoms
HostNames == <<"host-a", "host-b", "host-c", "host-d", "host-e">>

\* str < str on the atoms of the names (code point order)
AtomOrder == <<".", ".tmp", "host-a", "host-b", "host-c", "host-d", "host-e", "notes">>

AtomRank(a) == CHOOSE i \in 1..Len(AtomOrder) : AtomOrder[i] = a

RECURSIVE NameLess(_, _)
\* name < name
NameLess(p, q) ==
    IF q = <<>> THEN FALSE
    ELSE IF p = <<>> THEN TRUE
    ELSE IF Head(p) = Head(q) THEN NameLess(Tail(p), Tail(q))
    ELSE AtomRank(Head(p)) < AtomRank(Head(q))

UserValid ==
    << <<"#cloud-config">>, <<"autoinstall: {identity: {hostname: h}, version: 1}">> >>

UserNoIdentity == << <<"#cloud-config">>, <<"autoinstall: {version: 1}">> >>

\* what a host directory may hold
HostContents ==
    { [meta |-> MetaValid, user |-> UserValid],
      [meta |-> MetaValid, user |-> UserNoIdentity],
      [meta |-> NoFile, user |-> NoFile] }

\* a directory entry that is a directory
Dir(name, content) == [name |-> name, is_dir |-> TRUE, meta |-> content.meta, user |-> content.user]

\* a directory entry that is a regular file
File(name) == [name |-> name, is_dir |-> FALSE, meta |-> NoFile, user |-> NoFile]

EmptyDir == [meta |-> NoFile, user |-> NoFile]

\* entries the scanner has to leave out
OtherEntries ==
    { Dir(<<".", "host-a">>, EmptyDir), Dir(<<"host-b", ".tmp">>, EmptyDir), File(<<"notes">>) }

\* the listings of the hosts directory: each host name absent or a directory
HostListings ==
    { {Dir(<<HostNames[i]>>, f[i]) : i \in DOMAIN f} :
        f \in UNION { [S -> HostContents] : S \in SUBSET (1..MaxHosts) } }

FileSystems ==
    { [schema_file |-> s, hosts_is_dir |-> TRUE, entries |-> hosts \cup others] :
        s \in SchemaFiles, hosts \in HostListings, others \in {{}, OtherEntries} }
    \cup { [schema_file |-> s, hosts_is_dir |-> FALSE, entries |-> {}] : s \in SchemaFiles }

---------------------------------------------------------------------------
(* find_host_dirs *)


RECURSIVE entries_descending(_)
\* a faulty variant of sorted_entries: sorted with reverse=True
entries_descending(S) ==
    IF S = {} THEN <<>>
    ELSE LET greatest == CHOOSE e \in S : \A o \in S : o = e \/ NameLess(o.name, e.name)
         IN  <<greatest>> \o entries_descending(S \ {greatest})

RECURSIVE sorted_entries(_)
\* sorted(...) of the paths of a set of entries: by name, the base being shared
sorted_entries(S) ==
    IF S = {} THEN <<>>
    ELSE LET least == CHOOSE e \in S : \A o \in S : o = e \/ NameLess(e.name, o.name)
         IN  <<least>> \o sorted_entries(S \ {least})

\* not name.startswith(".") and not name.endswith(".tmp")
is_candidate(name) == ~startswith(name, <<".">>) /\ ~endswith(name, <<".tmp">>)

find_host_dirs(files) ==
    IF ~files.hosts_is_dir THEN <<>>
    ELSE LET entries == sorted_entries({e \in files.entries : is_candidate(e.name)})
         IN  SelectSeq(entries, LAMBDA e : e.is_dir)

\* os.path.basename(host_dir.rstrip(os.sep))
host_name_of(entry) == JoinAtoms(entry.name)

---------------------------------------------------------------------------
(* main *)

MsgSchemaFailed(exc) == "Failed to load schema: " \o exc
MsgNoHosts == "No host directories found under: " \o HostsDir
LineFail(host_name) == "[FAIL] " \o host_name
LineOk(host_name) == "[OK]   " \o host_name
LineError(err) == "  - " \o err

\* lines 195-197: the report of a host with errors
fail_report(host_name, errors) ==
    <<LineFail(host_name)>> \o [i \in 1..Len(errors) |-> LineError(errors[i])]


\* a faulty variant of exit_code: the code of the fatal conditions for a failed host
exit_code_fatal(any) == IF any THEN 2 ELSE 0

\* line 203
exit_code(any) == IF any THEN 1 ELSE 0


\* a faulty variant of stops_after_failure: the loop never stops early
stops_after_failure_never(ff) == FALSE

\* a faulty variant of stops_after_failure: the flag taken the wrong way round
stops_after_failure_inverted(ff) == ~ff

\* line 198: whether the loop stops behind a host with errors
stops_after_failure(ff) == ff

RunRecord == [fail_fast |-> fail_fast, out |-> out, rc |-> rc, validated |-> validated]

Init ==
    /\ fs \in FileSystems
    /\ pc = "idle"
    /\ fail_fast = FALSE
    /\ schema = <<>>
    /\ host_dirs = <<>>
    /\ idx = 0
    /\ any_errors = FALSE
    /\ out = <<>>
    /\ validated = <<>>
    /\ rc = -1
    /\ prev = <<>>
    /\ arg = "none"
    /\ ret = "none"
    /\ fpc = "off"

\* the program is started, with or without --fail-fast
Invoke(ff) ==
    /\ \/ pc = "idle" /\ prev' = prev
       \/ pc = "done" /\ Len(prev) + 1 < MaxRuns /\ prev' = Append(prev, RunRecord)
    /\ pc' = "load"
    /\ fail_fast' = ff
    /\ schema' = <<>>
    /\ host_dirs' = <<>>
    /\ idx' = 0
    /\ any_errors' = FALSE
    /\ out' = <<>>
    /\ validated' = <<>>
    /\ rc' = -1
    /\ UNCHANGED <<fs, arg, ret, fpc>>

\* lines 179-183
LoadSchema ==
    /\ pc = "load"
    /\ LET loaded == load_schema(fs.schema_file) IN
       IF loaded.ok
       THEN /\ schema' = loaded.value
            /\ pc' = "find"
            /\ UNCHANGED <<out, rc>>
       ELSE /\ out' = Append(out, MsgSchemaFailed(loaded.exc))
            /\ rc' = 2
            /\ pc' = "done"
            /\ UNCHANGED schema
    /\ UNCHANGED <<fs, fail_fast, host_dirs, idx, any_errors, validated, prev, arg, ret, fpc>>

\* lines 185-190
FindHostDirs ==
    /\ pc = "find"
    /\ LET found == find_host_dirs(fs) IN
       /\ host_dirs' = found
       /\ IF found = <<>>
          THEN /\ out' = Append(out, MsgNoHosts)
               /\ rc' = 2
               /\ pc' = "done"
          ELSE /\ pc' = "loop"
               /\ UNCHANGED <<out, rc>>
    /\ any_errors' = FALSE
    /\ UNCHANGED <<fs, fail_fast, schema, idx, validated, prev, arg, ret, fpc>>

\* lines 191-201: one iteration of the loop
ValidateHost ==
    /\ pc = "loop"
    /\ idx < Len(host_dirs)
    /\ LET host_dir == host_dirs[idx + 1]
           host_name == host_name_of(host_dir)
           errors == validate_host(host_dir, schema)
       IN  /\ validated' = Append(validated, host_name)
           /\ idx' = idx + 1
           /\ IF errors # <<>>
              THEN /\ any_errors' = TRUE
                   /\ out' = out \o fail_report(host_name, errors)
                   /\ pc' = IF stops_after_failure(fail_fast) THEN "return" ELSE "loop"
              ELSE /\ out' = Append(out, LineOk(host_name))
                   /\ UNCHANGED <<any_errors, pc>>
    /\ UNCHANGED <<fs, fail_fast, schema, host_dirs, rc, prev, arg, ret, fpc>>

\* line 203
Return ==
    /\ \/ pc = "loop" /\ idx = Len(host_dirs)
       \/ pc = "return"
    /\ rc' = exit_code(any_errors)
    /\ pc' = "done"
    /\ UNCHANGED <<fs, fail_fast, schema, host_dirs, idx, any_errors, out, validated,
                   prev, arg, ret, fpc>>

Next ==
    \/ \E ff \in BOOLEAN : Invoke(ff)
    \/ LoadSchema
    \/ FindHostDirs
    \/ ValidateHost
    \/ Return

Spec == Init /\ [][Next]_vars

---------------------------------------------------------------------------
(* Properties of main *)

\* the schema failed to load
SchemaFailed == ~load_schema(fs.schema_file).ok

\* the host directories of the file system: the directories of the hosts
\* directory whose name neither starts with a dot nor ends in .tmp
Discoverable ==
    IF fs.hosts_is_dir
    THEN {e \in fs.entries :
            e.is_dir /\ Head(e.name) # "." /\ e.name[Len(e.name)] # ".tmp"}
    ELSE {}

\* the error sequence of a host directory under the schema of the file system
ErrorsOf(e) == validate_host(e, load_schema(fs.schema_file).value)

\* every verdict line a run over the file system could print
VerdictLines ==
    UNION { {"[OK]   " \o JoinAtoms(e.name), "[FAIL] " \o JoinAtoms(e.name)} :
              e \in fs.entries }

FailLines == { "[FAIL] " \o JoinAtoms(e.name) : e \in fs.entries }

\* the lines a run prints for one host
ReportOf(e) ==
    IF ErrorsOf(e) = <<>> THEN <<"[OK]   " \o JoinAtoms(e.name)>>
    ELSE <<"[FAIL] " \o JoinAtoms(e.name)>>
         \o [i \in 1..Len(ErrorsOf(e)) |-> "  - " \o ErrorsOf(e)[i]]

RECURSIVE ReportsOf(_, _)
\* the reports of the first n hosts of a list, one after the other
ReportsOf(dirs, n) ==
    IF n = 0 THEN <<>> ELSE ReportsOf(dirs, n - 1) \o ReportOf(dirs[n])

NamesOf(dirs, n) == [i \in 1..n |-> JoinAtoms(dirs[i].name)]

\* C1: a finished run exits with 2 exactly when the schema failed to load or
\* no host directory was discovered, and then it validated no host and
\* printed no [OK]/[FAIL] line; otherwise it exits with 1 exactly when some
\* discovered host has a non-empty error sequence and with 0 exactly when
\* every discovered host has an empty one.
C1_ExitCode ==
    pc = "done" =>
        LET fatal == SchemaFailed \/ Discoverable = {} IN
        /\ rc \in {0, 1, 2}
        /\ (rc = 2) <=> fatal
        /\ fatal => /\ validated = <<>>
                    /\ \A i \in 1..Len(out) : out[i] \notin VerdictLines
        /\ ~fatal => /\ (rc = 1) <=> (\E e \in Discoverable : ErrorsOf(e) # <<>>)
                     /\ (rc = 0) <=> (\A e \in Discoverable : ErrorsOf(e) = <<>>)

\* a fail-fast run that ended with 1 and left a discovered host unvalidated
C1_Witness ==
    /\ pc = "done"
    /\ rc = 1
    /\ fail_fast
    /\ Len(validated) < Len(host_dirs)

\* the place of the first host of the list with a non-empty error sequence
FirstFailing(dirs) ==
    CHOOSE k \in 1..Len(dirs) :
        /\ ErrorsOf(dirs[k]) # <<>>
        /\ \A j \in 1..(k - 1) : ErrorsOf(dirs[j]) = <<>>

\* C2: under stop-on-first-failure, from the moment a host has been reported
\* as [FAIL] the hosts validated are exactly the hosts up to the first one
\* with a non-empty error sequence, and the output is one [OK] line for each
\* host before it followed by its [FAIL] report: no later host is validated
\* or printed.
C2_FailFastStops ==
    (fail_fast /\ any_errors) =>
        LET k == FirstFailing(host_dirs) IN
        /\ pc \in {"return", "done"}
        /\ validated = NamesOf(host_dirs, k)
        /\ out = [i \in 1..(k - 1) |-> "[OK]   " \o JoinAtoms(host_dirs[i].name)]
                 \o ReportOf(host_dirs[k])

\* a finished fail-fast run over three hosts, the first valid, the other two not
C2_Witness ==
    /\ pc = "done"
    /\ fail_fast
    /\ Len(host_dirs) = 3
    /\ ErrorsOf(host_dirs[1]) = <<>>
    /\ ErrorsOf(host_dirs[2]) # <<>>
    /\ ErrorsOf(host_dirs[3]) # <<>>
    /\ validated = <<"host-a", "host-b">>

\* C3: without stop-on-first-failure and with a schema that loaded, the hosts
\* validated so far are the first idx discovered host directories in
\* lexicographic order of name, each once; the output is their reports one
\* after the other, each with one verdict line; and the run ends only when
\* every discovered host directory has been validated and reported.
C3_AllHostsInOrder ==
    (~fail_fast /\ ~SchemaFailed /\ pc \in {"loop", "return", "done"}) =>
        /\ {host_dirs[i] : i \in 1..Len(host_dirs)} = Discoverable
        /\ \A i, j \in 1..Len(host_dirs) :
              i < j => NameLess(host_dirs[i].name, host_dirs[j].name)
        /\ idx <= Len(host_dirs)
        /\ validated = NamesOf(host_dirs, idx)
        /\ host_dirs # <<>> => out = ReportsOf(host_dirs, idx)
        /\ Cardinality({i \in 1..Len(out) : out[i] \in VerdictLines}) = idx
        /\ pc \in {"return", "done"} => idx = Len(host_dirs)

\* a finished run that went on behind a failing first host, in a hosts
\* directory that also holds entries the scanner leaves out
C3_Witness ==
    /\ pc = "done"
    /\ ~fail_fast
    /\ Len(host_dirs) = 3
    /\ ErrorsOf(host_dirs[1]) # <<>>
    /\ ErrorsOf(host_dirs[3]) = <<>>
    /\ validated = <<"host-a", "host-b", "host-c">>
    /\ Cardinality(fs.entries) > 3

\* the part of a report up to the end of its first [FAIL] block
UpToFirstFail(report) ==
    LET fails == {i \in 1..Len(report) : report[i] \in FailLines} IN
    IF fails = {} THEN report
    ELSE LET first == CHOOSE i \in fails : \A j \in fails : i <= j
             last == CHOOSE j \in first..Len(report) :
                        /\ \A m \in (first + 1)..j : report[m] \notin VerdictLines
                        /\ (j = Len(report) \/ report[j + 1] \in VerdictLines)
         IN  SubSeq(report, 1, last)

\* C10: of two finished runs over the same file system, one with and one
\* without stop-on-first-failure, the exit codes are equal and the report of
\* the fail-fast run is the report of the other run up to and including the
\* error lines of its first [FAIL] host, or all of it when no host fails.
C10_FailFastPrefix ==
    (pc = "done") =>
        \A n \in 1..Len(prev) :
            (prev[n].fail_fast # fail_fast) =>
                LET fast == IF fail_fast THEN RunRecord ELSE prev[n]
                    full == IF fail_fast THEN prev[n] ELSE RunRecord
                IN  /\ fast.rc = full.rc
                    /\ fast.out = UpToFirstFail(full.out)

\* a fail-fast run and a full run of which the first printed strictly less
C10_Witness ==
    /\ pc = "done"
    /\ Len(prev) = 1
    /\ prev[1].fail_fast
    /\ ~fail_fast
    /\ Len(prev[1].out) < Len(out)
    /\ rc = 1

---------------------------------------------------------------------------
(* Properties of validate_meta (SpecMeta) *)

\* the lines of a text that set `key`: not blank, not a comment, with a
\* colon, and `key` in front of the first colon
SettingLines(text, key) ==
    { i \in 1..Len(text) :
        LET line == strip(text[i]) IN
        /\ line # <<>>
        /\ Head(line) # "#"
        /\ Contains(line, ":")
        /\ strip(SubSeq(line, 1, IndexOf(line, ":") - 1)) = <<key>> }

\* `key` is missing from the text, or the last line setting it gives no value
MissingOrEmpty(text, key) ==
    LET lines == SettingLines(text, key) IN
    \/ lines = {}
    \/ LET last == CHOOSE i \in lines : \A j \in lines : j <= i
           line == strip(text[last])
       IN  strip(SubSeq(line, IndexOf(line, ":") + 1, Len(line))) = <<>>

\* what the claim says of one key and its message
OncePerMissingKey(text, errors) ==
    /\ MissingOrEmpty(text, "instance-id") =>
           CountOf(errors, "meta-data: missing instance-id") = 1
    /\ MissingOrEmpty(text, "local-hostname") =>
           CountOf(errors, "meta-data: missing local-hostname") = 1

\* C5 as stated: for any meta-data content, the empty content included, each
\* of the two messages is returned exactly once when its key is missing or
\* empty, whatever the other key.
C5_AnyContent == fpc = "returned" => OncePerMissingKey(arg.meta, ret)

\* C5 amended: for any non-empty meta-data content each of the two messages
\* is returned exactly once when its key is missing or empty, whatever the
\* other key; for the empty content the only error is "meta-data missing or
\* empty".
C5_NonEmptyContent ==
    fpc = "returned" =>
        /\ arg.meta # <<>> => OncePerMissingKey(arg.meta, ret)
        /\ arg.meta = <<>> => ret = <<"meta-data missing or empty">>

\* a text that sets local-hostname and, by a later line, leaves instance-id
\* empty: the one message for instance-id
C5_Witness ==
    /\ fpc = "returned"
    /\ Len(arg.meta) = 3
    /\ ~MissingOrEmpty(arg.meta, "local-hostname")
    /\ SettingLines(arg.meta, "instance-id") # {}
    /\ MissingOrEmpty(arg.meta, "instance-id")
    /\ ret = <<"meta-data: missing instance-id">>

---------------------------------------------------------------------------
(* Properties of validate_user_data and validate_host (SpecUser) *)

\* validate_user_data has returned for a non-empty text
UserDataChecked == fpc = "returned" /\ ret.fn = "validate_user_data" /\ arg.user # <<>>

\* the text parses, and this is its root
Parses == safe_load(arg.user).ok
ParsedRoot == safe_load(arg.user).doc

\* the error for the missing marker line, if the text has none
MarkerPart ==
    IF cloud_config_search(arg.user) THEN <<>>
    ELSE <<"user-data: first line should start with #cloud-config">>

\* the text parses to a mapping without the key autoinstall
RootLacksAutoinstall ==
    Parses /\ IsDict(ParsedRoot) /\ ~HasKey(ParsedRoot, "autoinstall")

\* C4 as stated: a text that parses to a mapping without the key autoinstall,
\* with or without a marker line, gets exactly one error, the missing-key error.
C4_ExactlyOneError ==
    (UserDataChecked /\ RootLacksAutoinstall) =>
        ret.errors = <<"user-data: missing top-level 'autoinstall' key">>

\* C4 amended: such a text gets the missing-key error as its last error and
\* nothing behind it; it is the only error when the text has a marker line,
\* and is preceded by the missing-marker error alone when it has none.
C4_MissingKeyLast ==
    (UserDataChecked /\ RootLacksAutoinstall) =>
        ret.errors = MarkerPart \o <<"user-data: missing top-level 'autoinstall' key">>

\* a mapping root without autoinstall in a text without marker line: two errors
C4_Witness ==
    /\ UserDataChecked
    /\ RootLacksAutoinstall
    /\ ParsedRoot.pairs # <<>>
    /\ ~cloud_config_search(arg.user)
    /\ Len(ret.errors) = 2

\* C6: for a non-empty user-data text that does not parse, with or without
\* marker line, validate_host returns the errors of the meta-data file
\* followed by exactly one configuration error, the parse failure.
C6_ParseFailure ==
    (fpc = "returned" /\ ret.fn = "validate_host" /\ arg.user # <<>> /\ ~Parses) =>
        LET meta_errors == validate_meta(arg.meta) IN
        /\ Len(ret.errors) = Len(meta_errors) + 1
        /\ SubSeq(ret.errors, 1, Len(meta_errors)) = meta_errors
        /\ ret.errors[Len(ret.errors)]
              = "user-data: invalid YAML (" \o safe_load(arg.user).exc \o ")"

\* an unparseable text without marker line beside a missing meta-data file:
\* the one configuration error carries the parser's message and position
C6_Witness ==
    /\ fpc = "returned"
    /\ ret.fn = "validate_host"
    /\ arg.user = << <<>>, <<"a: b: c">> >>
    /\ ~Parses
    /\ ~cloud_config_search(arg.user)
    /\ arg.meta = <<>>
    /\ ret.errors =
          << "meta-data missing or empty",
             "user-data: invalid YAML (mapping values are not allowed here\n"
             \o "  in \"<unicode string>\", line 2, column 5:\n"
             \o "    a: b: c\n        ^)" >>

\* C7 as stated: a text whose parsed root is not a mapping (a sequence, a
\* scalar or null, the empty and zero ones included) gets exactly one error,
\* the one asking for a mapping at top level.
C7_AnyNonMapping ==
    (UserDataChecked /\ Parses /\ ~IsDict(ParsedRoot)) =>
        ret.errors = <<"user-data: expected a YAML mapping at top-level">>

\* C7 amended: a root that is not a mapping and is not falsy (a non-empty
\* sequence, a non-zero number, a non-empty string) gets exactly that one
\* error; a falsy root (null or the empty document, 0, false, the empty
\* string, the empty sequence) is taken for an empty mapping and gets the
\* missing-key error, behind the missing-marker error if there is no marker.
C7_TruthyNonMapping ==
    (UserDataChecked /\ Parses /\ ~IsDict(ParsedRoot)) =>
        IF ParsedRoot.t \in {"null"}
           \/ (ParsedRoot.t = "bool" /\ ~ParsedRoot.b)
           \/ (ParsedRoot.t = "int" /\ ParsedRoot.n = 0)
           \/ (ParsedRoot.t = "str" /\ ParsedRoot.s = "")
           \/ (ParsedRoot.t = "seq" /\ ParsedRoot.items = <<>>)
        THEN ret.errors
                = MarkerPart \o <<"user-data: missing top-level 'autoinstall' key">>
        ELSE ret.errors = <<"user-data: expected a YAML mapping at top-level">>

\* a non-empty sequence as root in a text without marker line: one error
C7_Witness ==
    /\ UserDataChecked
    /\ Parses
    /\ ParsedRoot.t = "seq"
    /\ ParsedRoot.items # <<>>
    /\ ~cloud_config_search(arg.user)
    /\ ret.errors = <<"user-data: expected a YAML mapping at top-level">>

\* the root is a mapping that has the key autoinstall
RootHasAutoinstall == Parses /\ IsDict(ParsedRoot) /\ HasKey(ParsedRoot, "autoinstall")

AutoinstallValue == Get(ParsedRoot, "autoinstall")

\* C8 as stated: when autoinstall is present with a value that is not a
\* mapping (scalar, sequence or null) the last and only error behind the
\* marker check is "'autoinstall' must be a mapping"; the missing-key error
\* is reported only when the key is absent.
C8_PresentNotMapping ==
    (UserDataChecked /\ RootHasAutoinstall /\ ~IsDict(AutoinstallValue)) =>
        /\ ret.errors = MarkerPart \o <<"user-data: 'autoinstall' must be a mapping/object">>
        /\ \A i \in 1..Len(ret.errors) :
              ret.errors[i] # "user-data: missing top-level 'autoinstall' key"

\* C8 amended: when autoinstall is present with a scalar or a sequence the
\* only error behind the marker check is "'autoinstall' must be a mapping";
\* when it is present with the value null the only error behind the marker
\* check is the missing-key error, as for an absent key.
C8_NullCountsAsMissing ==
    (UserDataChecked /\ RootHasAutoinstall /\ ~IsDict(AutoinstallValue)) =>
        IF AutoinstallValue.t = "null"
        THEN ret.errors
                = MarkerPart \o <<"user-data: missing top-level 'autoinstall' key">>
        ELSE ret.errors
                = MarkerPart \o <<"user-data: 'autoinstall' must be a mapping/object">>

\* autoinstall: 0, a value that is falsy and not null
C8_Witness ==
    /\ UserDataChecked
    /\ RootHasAutoinstall
    /\ AutoinstallValue.t = "int"
    /\ AutoinstallValue.n = 0
    /\ ret.errors = <<"user-data: 'autoinstall' must be a mapping/object">>

\* the root is a mapping with a mapping under autoinstall
AutoinstallIsMapping == RootHasAutoinstall /\ IsDict(AutoinstallValue)

\* the error of the identity check, if identity is not a key of autoinstall
IdentityPart ==
    IF HasKey(AutoinstallValue, "identity") THEN <<>>
    ELSE LET close == get_close_matches(Keys(AutoinstallValue))
         IN  IF close = <<>> THEN <<"user-data.autoinstall: missing 'identity'">>
             ELSE <<"user-data.autoinstall: missing 'identity' (did you mean '"
                      \o close[1] \o "'?)">>

\* the violations of the autoinstall mapping, a function of the schema and
\* the mapping alone: every error of iter_errors once, by non-decreasing
\* path, errors of one path in the order iter_errors gave them
ViolationsInOrder(sorted) ==
    LET found == iter_errors(arg.schema, AutoinstallValue) IN
    /\ Len(sorted) = Len(found)
    /\ \A i, j \in 1..Len(sorted) : i < j => ~PathLess(sorted[j].path, sorted[i].path)
    /\ \E p \in [1..Len(found) -> 1..Len(found)] :
          /\ \A i, j \in 1..Len(found) : i # j => p[i] # p[j]
          /\ \A i \in 1..Len(found) : sorted[p[i]] = found[i]
          /\ \A i, j \in 1..Len(found) :
                (i < j /\ found[i].path = found[j].path) => p[i] < p[j]

ViolationLine(e) ==
    "user-data.autoinstall: "
    \o (IF e.path = <<>> THEN "(root)" ELSE JoinPath(e.path)) \o ": " \o e.message

\* the errors are `front` followed by the lines of the violations in order
EndsInViolations(errors, front) ==
    \E sorted \in {sorted_by_path(iter_errors(arg.schema, AutoinstallValue))} :
        /\ ViolationsInOrder(sorted)
        /\ errors = front \o [i \in 1..Len(sorted) |-> ViolationLine(sorted[i])]

\* C9 as stated: with a mapping under autoinstall, with or without marker
\* line and identity key, the returned sequence is the identity-check error,
\* if any, followed by all schema violations in path-sorted order.
C9_IdentityThenViolations ==
    (UserDataChecked /\ AutoinstallIsMapping) =>
        EndsInViolations(ret.errors, IdentityPart)

\* C9 amended: the returned sequence is the missing-marker error, if the
\* text has no marker line, then the identity-check error, if any, then all
\* schema violations of the autoinstall mapping in path-sorted order, which
\* the schema and the mapping alone determine.
C9_MarkerIdentityViolations ==
    (UserDataChecked /\ AutoinstallIsMapping) =>
        EndsInViolations(ret.errors, MarkerPart \o IdentityPart)

\* no marker line, no identity key, and violations that the sort reorders
C9_Witness ==
    /\ UserDataChecked
    /\ AutoinstallIsMapping
    /\ ~cloud_config_search(arg.user)
    /\ ~HasKey(AutoinstallValue, "identity")
    /\ Len(iter_errors(arg.schema, AutoinstallValue)) >= 2
    /\ sorted_by_path(iter_errors(arg.schema, AutoinstallValue))
          # iter_errors(arg.schema, AutoinstallValue)
    /\ Len(ret.errors) = 2 + Len(iter_errors(arg.schema, AutoinstallValue))
====
